---- MODULE Spec2Model ----
(***************************************************************************)
(* Model of public/app/features/alerting/unified/components/contact-points *)
(* /utils.ts: the read-side enrichment of alerting contact points.         *)
(*                                                                         *)
(* JavaScript strings are sequences of one-character strings.  An object   *)
(* is a record; an optional field whose value is undefined is a field the  *)
(* record does not have.  A value that may be undefined where it is used   *)
(* is a tagged record: Undefined, Str(s), Arr(a), ...                      *)
(***************************************************************************)
EXTENDS Integers, Sequences, FiniteSets, TLC

VARIABLES
  pc,          \* the function that has run ("idle" before any call)
  addresses,   \* summarizeEmailAddresses: the argument
  emails,      \* summarizeEmailAddresses: the parsed, trimmed addresses
  summary,     \* summarizeEmailAddresses: the segments that are joined
  rest,        \* summarizeEmailAddresses: difference(emails, first 3)
  summarized,  \* summarizeEmailAddresses: the returned string
  featureToggles,     \* config.featureToggles
  route,              \* the Route passed to isAutoGeneratedPolicy / getUsedContactPoints
  autoGenerated,      \* isAutoGeneratedPolicy: the returned boolean
  usedContactPoints,  \* getUsedContactPoints: the returned RouteReference[]
  receiver,           \* getReceiverDescription: the argument
  description,        \* getReceiverDescription: the returned value
  args,               \* enhanceContactPointsWithMetadata: the argument object
  fullyInheritedTree, \* enhanceContactPointsWithMetadata: the inherited route tree
  enhanced            \* enhanceContactPointsWithMetadata: the returned list

emailVars == <<addresses, emails, summary, rest, summarized>>

routeVars == <<featureToggles, route, autoGenerated, usedContactPoints>>

descriptionVars == <<receiver, description>>

enhanceVars == <<args, fullyInheritedTree, enhanced>>

vars == <<pc, emailVars, routeVars, descriptionVars, enhanceVars>>

(***************************************************************************)
(* JavaScript values                                                       *)
(***************************************************************************)
Undefined == [t |-> "undefined"]

Null == [t |-> "null"]

Str(s) == [t |-> "string", v |-> s]

Arr(a) == [t |-> "array", v |-> a]

\* a built-in function, such as Object.prototype.toString
Fn(name) == [t |-> "function", name |-> name]

IsString(x) == x.t = "string"

\* JavaScript truthiness of a string-or-undefined value
Truthy(x) == IsString(x) /\ x.v # <<>>

\* a || b
Or(a, b) == IF Truthy(a) THEN a ELSE b

Min(a, b) == IF a < b THEN a ELSE b

\* an object without fields
NoFields == [k \in {} |-> <<>>]

\* the object has the (optional) field k
HasField(obj, k) == k \in DOMAIN obj

(***************************************************************************)
(* Strings                                                                 *)
(***************************************************************************)
WhiteSpace == {" ", "\n"}

RECURSIVE TrimStart(_)
TrimStart(s) ==
  IF s # <<>> /\ Head(s) \in WhiteSpace THEN TrimStart(Tail(s)) ELSE s

RECURSIVE TrimEnd(_)
TrimEnd(s) ==
  IF s # <<>> /\ s[Len(s)] \in WhiteSpace
  THEN TrimEnd(SubSeq(s, 1, Len(s) - 1))
  ELSE s

\* String.prototype.trim and lodash trim(string)
trim(s) == TrimEnd(TrimStart(s))

\* the index of the first character at or after i that is not a newline
RECURSIVE SkipNewlines(_, _)
SkipNewlines(s, i) ==
  IF i <= Len(s) /\ s[i] = "\n" THEN SkipNewlines(s, i + 1) ELSE i

\* s.split(/,|;|\n+/g) from position i, cur the piece being read
RECURSIVE SplitFrom(_, _, _, _)
SplitFrom(s, i, cur, acc) ==
  IF i > Len(s) THEN Append(acc, cur)
  ELSE IF s[i] \in {",", ";"} THEN SplitFrom(s, i + 1, <<>>, Append(acc, cur))
  ELSE IF s[i] = "\n" THEN SplitFrom(s, SkipNewlines(s, i), <<>>, Append(acc, cur))
  ELSE SplitFrom(s, i + 1, Append(cur, s[i]), acc)

SUPPORTED_SEPARATORS_split(s) == SplitFrom(s, 1, <<>>, <<>>)

\* lodash take(array, n)
take(array, n) == SubSeq(array, 1, Min(n, Len(array)))

\* lodash difference(array, values): the elements of array equal to no element
\* of values, in order
RECURSIVE difference(_, _)
difference(array, values) ==
  IF array = <<>> THEN <<>>
  ELSE LET tl == difference(Tail(array), values)
       IN IF \E j \in 1..Len(values) : values[j] = Head(array)
          THEN tl
          ELSE <<Head(array)>> \o tl

\* Array.prototype.join(sep)
RECURSIVE join(_, _)
join(array, sep) ==
  IF array = <<>> THEN <<>>
  ELSE IF Len(array) = 1 THEN array[1]
  ELSE array[1] \o sep \o join(Tail(array), sep)

DigitChars == <<"0", "1", "2", "3", "4", "5", "6", "7", "8", "9">>

\* the decimal text of a natural number, as a template literal prints it
RECURSIVE NumberToString(_)
NumberToString(n) ==
  IF n < 10 THEN <<DigitChars[n + 1]>>
  ELSE NumberToString(n \div 10) \o <<DigitChars[(n % 10) + 1]>>

\* `+${n} more`
MoreSegment(n) == <<"+">> \o NumberToString(n) \o <<" ", "m", "o", "r", "e">>

(***************************************************************************)
(* summarizeEmailAddresses                                                 *)
(***************************************************************************)
MAX_ADDRESSES_SHOWN == 3

ParseEmails(s) ==
  LET pieces == SUPPORTED_SEPARATORS_split(trim(s))
  IN [i \in 1..Len(pieces) |-> trim(pieces[i])]

\* a variant that takes the rest by position: everything after the shown ones
RestOfEmails_ByPosition(all, shown) == SubSeq(all, Len(shown) + 1, Len(all))

\* const rest = difference(emails, summary)
RestOfEmails(all, shown) == difference(all, shown)

\* the locals of one call, and its result
summarizeEmailAddresses(s) ==
  LET all   == ParseEmails(s)
      shown == take(all, MAX_ADDRESSES_SHOWN)
      others == RestOfEmails(all, shown)
      segs  == IF Len(others) # 0 THEN Append(shown, MoreSegment(Len(others)))
               ELSE shown
  IN [emails |-> all, rest |-> others, summary |-> segs,
      result |-> join(segs, <<",", " ">>)]

\* no call of summarizeEmailAddresses has been made
EmailIdle ==
  /\ emails = <<>>
  /\ summary = <<>>
  /\ rest = <<>>
  /\ summarized = Undefined

(***************************************************************************)
(* getReceiverDescription.  A receiver config is a record with a type, an  *)
(* optional settings object and the metadata attached under the reserved   *)
(* keys RECEIVER_META_KEY and RECEIVER_PLUGIN_META_KEY.                    *)
(***************************************************************************)
\* ReceiverTypes.OnCall
ReceiverTypes_OnCall == "oncall"

\* obj.k, undefined when the field is missing
Field(obj, k) == IF HasField(obj, k) THEN Str(obj[k]) ELSE Undefined

\* recipient.replace(/^#/, '')
ReplaceLeadingHash(s) == IF s # <<>> /\ Head(s) = "#" THEN Tail(s) ELSE s

\* a variant that summarizes whatever the address field holds
EmailDescription_Unchecked(settings) ==
  LET a == Or(Field(settings, "addresses"), Field(settings, "to"))
  IN IF IsString(a) THEN Str(summarizeEmailAddresses(a.v).result) ELSE Undefined

\* case 'email'
EmailDescription(settings) ==
  LET a == Or(Field(settings, "addresses"), Field(settings, "to"))
  IN IF Truthy(a) THEN Str(summarizeEmailAddresses(a.v).result) ELSE Undefined

\* a variant that removes every leading "#"
RECURSIVE ReplaceAllLeadingHashes(_)
ReplaceAllLeadingHashes(s) ==
  IF s # <<>> /\ Head(s) = "#" THEN ReplaceAllLeadingHashes(Tail(s)) ELSE s

SlackDescription_StripsAll(settings) ==
  LET recipient == Or(Field(settings, "recipient"), Field(settings, "channel"))
  IN IF ~Truthy(recipient) THEN Undefined
     ELSE Str(<<"#">> \o ReplaceAllLeadingHashes(recipient.v))

\* case 'slack'
SlackDescription(settings) ==
  LET recipient == Or(Field(settings, "recipient"), Field(settings, "channel"))
  IN IF ~Truthy(recipient) THEN Undefined
     ELSE LET channelName == ReplaceLeadingHash(recipient.v)
          IN Str(<<"#">> \o channelName)

\* receiver[key]?.description
MetaDescription(r, key) ==
  IF HasField(r, key) THEN Field(r[key], "description") ELSE Undefined

getReceiverDescription(r) ==
  IF ~HasField(r, "settings") THEN Undefined
  ELSE CASE r.type = "email" -> EmailDescription(r.settings)
         [] r.type = "slack" -> SlackDescription(r.settings)
         [] r.type = "kafka" -> Field(r.settings, "kafkaTopic")
         [] r.type = "webhook" -> Field(r.settings, "url")
         [] r.type = ReceiverTypes_OnCall -> MetaDescription(r, "RECEIVER_PLUGIN_META_KEY")
         [] OTHER -> MetaDescription(r, "RECEIVER_META_KEY")

\* no call of getReceiverDescription has been made
DescriptionIdle ==
  /\ receiver = NoFields
  /\ description = Undefined

(***************************************************************************)
(* Routes.  A Route is a record whose optional fields may be missing:      *)
(* receiver (a string), object_matchers (a list of <<label, operator,      *)
(* value>>), routes (a list of Routes).                                    *)
(***************************************************************************)
AUTOGENERATED_RECEIVER_POLICY_MATCHER_KEY == "__grafana_receiver__"

\* MatcherOperator.equal
MatcherOperator_equal == "="

\* config.featureToggles.alertingSimplifiedRouting ?? false
simplifiedRoutingToggleEnabled(toggles) ==
  IF HasField(toggles, "alertingSimplifiedRouting")
  THEN toggles.alertingSimplifiedRouting
  ELSE FALSE

\* a variant that looks at the matcher's label only
isAutoGeneratedPolicy_AnyOperator(toggles, r) ==
  IF ~simplifiedRoutingToggleEnabled(toggles) THEN FALSE
  ELSE IF ~HasField(r, "object_matchers") THEN FALSE
  ELSE \E i \in 1..Len(r.object_matchers) :
         r.object_matchers[i][1] = AUTOGENERATED_RECEIVER_POLICY_MATCHER_KEY

isAutoGeneratedPolicy(toggles, r) ==
  IF ~simplifiedRoutingToggleEnabled(toggles) THEN FALSE
  ELSE IF ~HasField(r, "object_matchers") THEN FALSE
  ELSE \E i \in 1..Len(r.object_matchers) :
         /\ r.object_matchers[i][1] = AUTOGENERATED_RECEIVER_POLICY_MATCHER_KEY
         /\ r.object_matchers[i][2] = MatcherOperator_equal

\* route.receiver is truthy
HasReceiver(r) == HasField(r, "receiver") /\ r.receiver # <<>>

RouteType(toggles, r) ==
  IF isAutoGeneratedPolicy(toggles, r) THEN "auto-generated" ELSE "normal"

RouteReference(toggles, r) ==
  [receiver |-> r.receiver, route |-> [type |-> RouteType(toggles, r)]]

RECURSIVE getUsedContactPoints(_, _)
RECURSIVE FlatMapUsedContactPoints(_, _)
\* route.routes.flatMap((route) => getUsedContactPoints(route))
FlatMapUsedContactPoints(toggles, rs) ==
  IF rs = <<>> THEN <<>>
  ELSE getUsedContactPoints(toggles, Head(rs))
         \o FlatMapUsedContactPoints(toggles, Tail(rs))

\* a variant that does not descend below a route without a receiver
getUsedContactPoints_StopsAtGrouping(toggles, r) ==
  IF HasReceiver(r)
  THEN <<RouteReference(toggles, r)>> \o
         (IF HasField(r, "routes") THEN FlatMapUsedContactPoints(toggles, r.routes)
          ELSE <<>>)
  ELSE <<>>

getUsedContactPoints(toggles, r) ==
  LET childrenContactPoints ==
        IF HasField(r, "routes") THEN FlatMapUsedContactPoints(toggles, r.routes)
        ELSE <<>>
  IN IF HasReceiver(r)
     THEN <<RouteReference(toggles, r)>> \o childrenContactPoints
     ELSE childrenContactPoints

\* no call on a route has been made
RouteIdle ==
  /\ featureToggles = NoFields
  /\ route = NoFields
  /\ autoGenerated = FALSE
  /\ usedContactPoints = <<>>

(***************************************************************************)
(* enhanceContactPointsWithMetadata                                        *)
(***************************************************************************)
LowerCase == <<"a", "b", "c", "d", "e", "f", "g", "h", "i", "j", "k", "l", "m",
               "n", "o", "p", "q", "r", "s", "t", "u", "v", "w", "x", "y", "z">>

UpperCase == <<"A", "B", "C", "D", "E", "F", "G", "H", "I", "J", "K", "L", "M",
               "N", "O", "P", "Q", "R", "S", "T", "U", "V", "W", "X", "Y", "Z">>

IsUpper(c) == \E i \in DOMAIN UpperCase : UpperCase[i] = c

\* the place of a letter in the alphabet, whatever its case
LetterRank(c) == CHOOSE i \in DOMAIN LowerCase : LowerCase[i] = c \/ UpperCase[i] = c

\* the UTF-16 code unit of a letter: A-Z are 65-90, a-z are 97-122
CodeUnit(c) == IF IsUpper(c) THEN 64 + LetterRank(c) ELSE 96 + LetterRank(c)

\* the order of two sequences of numbers, as -1, 0 or 1: the first difference
\* decides, and a proper prefix comes first
RECURSIVE CompareWeights(_, _)
CompareWeights(a, b) ==
  IF a = <<>> /\ b = <<>> THEN 0
  ELSE IF a = <<>> THEN -1
  ELSE IF b = <<>> THEN 1
  ELSE IF Head(a) < Head(b) THEN -1
  ELSE IF Head(a) > Head(b) THEN 1
  ELSE CompareWeights(Tail(a), Tail(b))

\* a comparison by code units
localeCompare_CodeUnits(a, b) ==
  CompareWeights([i \in DOMAIN a |-> CodeUnit(a[i])], [i \in DOMAIN b |-> CodeUnit(b[i])])

\* a.localeCompare(b) on strings of letters: the letters decide first, whatever
\* their case, and then the case, lower case first
localeCompare(a, b) ==
  LET primary == CompareWeights([i \in DOMAIN a |-> LetterRank(a[i])],
                                [i \in DOMAIN b |-> LetterRank(b[i])])
  IN IF primary # 0 THEN primary
     ELSE CompareWeights([i \in DOMAIN a |-> IF IsUpper(a[i]) THEN 1 ELSE 0],
                         [i \in DOMAIN b |-> IF IsUpper(b[i]) THEN 1 ELSE 0])

\* (a, b) => a.name.localeCompare(b.name)
CompareByName(a, b) == localeCompare(a.name, b.name)

Front(seq) == SubSeq(seq, 1, Len(seq) - 1)

\* a variant that puts an element before the elements it compares equal to
RECURSIVE InsertSorted_BeforeEqual(_, _)
InsertSorted_BeforeEqual(sorted, x) ==
  IF sorted = <<>> THEN <<x>>
  ELSE IF CompareByName(sorted[Len(sorted)], x) < 0 THEN Append(sorted, x)
  ELSE Append(InsertSorted_BeforeEqual(Front(sorted), x), sorted[Len(sorted)])

\* Array.prototype.sort is stable: an element goes after the elements that do not
\* compare greater than it
RECURSIVE InsertSorted(_, _)
InsertSorted(sorted, x) ==
  IF sorted = <<>> THEN <<x>>
  ELSE IF CompareByName(sorted[Len(sorted)], x) <= 0 THEN Append(sorted, x)
  ELSE Append(InsertSorted(Front(sorted), x), sorted[Len(sorted)])

\* enhanced.sort((a, b) => a.name.localeCompare(b.name))
RECURSIVE SortByName(_)
SortByName(list) ==
  IF list = <<>> THEN <<>>
  ELSE InsertSorted(SortByName(Front(list)), list[Len(list)])

\* the fields of the argument object, with their defaults
ArgStatus(a) == IF HasField(a, "status") THEN a.status ELSE <<>>

ArgNotifiers(a) == IF HasField(a, "notifiers") THEN a.notifiers ELSE <<>>

ArgOnCallIntegrations(a) ==
  IF HasField(a, "onCallIntegrations") THEN a.onCallIntegrations ELSE Undefined

HasConfiguration(a) == HasField(a, "alertmanagerConfiguration")

\* alertmanagerConfiguration?.alertmanager_config?.route ?? {}
ConfiguredRoute(a) ==
  IF /\ HasConfiguration(a)
     /\ HasField(a.alertmanagerConfiguration, "alertmanager_config")
     /\ HasField(a.alertmanagerConfiguration.alertmanager_config, "route")
  THEN a.alertmanagerConfiguration.alertmanager_config.route
  ELSE NoFields

\* utils/notification-policies: a child route without a receiver of its own takes
\* its parent's
RECURSIVE computeInheritedTree(_)
computeInheritedTree(parent) ==
  IF ~HasField(parent, "routes") THEN parent
  ELSE [routes |->
          [i \in DOMAIN parent.routes |->
             computeInheritedTree(
               IF HasReceiver(parent) /\ ~HasReceiver(parent.routes[i])
               THEN [receiver |-> parent.receiver] @@ parent.routes[i]
               ELSE parent.routes[i])]] @@ parent

\* utils/receivers: the integrations of a contact point
extractReceivers(contactPoint) ==
  IF HasField(contactPoint, "grafana_managed_receiver_configs")
  THEN contactPoint.grafana_managed_receiver_configs
  ELSE <<>>

\* grafanaAppReceivers/useReceiversMetadata: the metadata of an OnCall integration
getOnCallMetadata(onCallIntegrations, r, hasAlertManagerConfigData) ==
  [title |-> "Grafana OnCall"] @@
  (IF ~hasAlertManagerConfigData THEN NoFields
   ELSE IF onCallIntegrations.t # "array"
   THEN [warning |-> "Grafana OnCall is not installed or is disabled"]
   ELSE LET urls == {i \in DOMAIN onCallIntegrations.v :
                       /\ HasField(r, "settings")
                       /\ HasField(r.settings, "url")
                       /\ onCallIntegrations.v[i].integration_url = r.settings.url}
        IN IF urls = {} THEN NoFields
           ELSE [description |-> onCallIntegrations.v[CHOOSE i \in urls : \A j \in urls : i <= j].display_name])

\* lodash upperFirst on the receiver types of the model
upperFirst ==
  [email |-> "Email", slack |-> "Slack", kafka |-> "Kafka", webhook |-> "Webhook",
   oncall |-> "Oncall", teams |-> "Teams"]

\* the index of the first element whose field k is v, 0 when there is none:
\* where list.find((x) => x.k === v) finds its element
FirstWith(list, k, v) ==
  IF \E i \in DOMAIN list : list[i][k] = v
  THEN CHOOSE i \in DOMAIN list :
         list[i][k] = v /\ \A j \in 1..(i - 1) : list[j][k] # v
  ELSE 0

getNotifierMetadata(notifiers, r) ==
  LET match == FirstWith(notifiers, "type", r.type)
  IN IF match = 0 THEN [name |-> upperFirst[r.type]]
     ELSE [name |-> notifiers[match].name] @@
          (IF HasField(notifiers[match], "description")
           THEN [description |-> notifiers[match].description]
           ELSE NoFields)

\* lodash groupBy(usedContactPoints, 'receiver'): a plain object with one own
\* property per receiver, holding the references to it in order
groupBy_receiver(refs) ==
  [n \in {refs[i].receiver : i \in DOMAIN refs} |->
     LET Named(ref) == ref.receiver = n IN SelectSeq(refs, Named)]

\* property names every plain object inherits from Object.prototype
ObjectPrototypeKeys ==
  {<<"c", "o", "n", "s", "t", "r", "u", "c", "t", "o", "r">>,
   <<"t", "o", "S", "t", "r", "i", "n", "g">>,
   <<"v", "a", "l", "u", "e", "O", "f">>}

\* usedContactPointsByName[name]: an own property, else an inherited one
GroupLookup(groups, name) ==
  IF name \in DOMAIN groups THEN Arr(groups[name])
  ELSE IF name \in ObjectPrototypeKeys THEN Fn("Object.prototype")
  ELSE Undefined

\* alertmanagerConfiguration && usedContactPointsByName &&
\*   (usedContactPointsByName[contactPoint.name] ?? [])
Policies(a, groups, name) ==
  IF ~HasConfiguration(a) THEN Undefined
  ELSE IF GroupLookup(groups, name) = Undefined THEN Arr(<<>>)
  ELSE GroupLookup(groups, name)

\* a variant that matches a status to a receiver by the integration's type
IntegrationStatus_ByType(a, contactPoint, r, index) ==
  LET statusForReceiver == FirstWith(ArgStatus(a), "name", contactPoint.name)
  IN IF statusForReceiver = 0 THEN Undefined
     ELSE LET integrations == ArgStatus(a)[statusForReceiver].integrations
          IN IF FirstWith(integrations, "name", r.type) = 0 THEN Undefined
             ELSE [t |-> "object", v |-> integrations[FirstWith(integrations, "name", r.type)]]

\* status.find((status) => status.name === contactPoint.name)?.integrations[index]
IntegrationStatus(a, contactPoint, r, index) ==
  LET statusForReceiver == FirstWith(ArgStatus(a), "name", contactPoint.name)
  IN IF statusForReceiver = 0 THEN Undefined
     ELSE LET integrations == ArgStatus(a)[statusForReceiver].integrations
          IN IF index \in DOMAIN integrations
             THEN [t |-> "object", v |-> integrations[index]]
             ELSE Undefined

\* the field k holding the value, or no field when the value is undefined
OptionalValue(k, value) == IF value = Undefined THEN NoFields ELSE k :> value

EnhanceReceiver(a, contactPoint, r, index) ==
  LET st == IntegrationStatus(a, contactPoint, r, index)
  IN (IF st = Undefined THEN NoFields ELSE [RECEIVER_STATUS_KEY |-> st.v])
     @@ [RECEIVER_META_KEY |-> getNotifierMetadata(ArgNotifiers(a), r)]
     @@ (IF r.type = ReceiverTypes_OnCall
         THEN [RECEIVER_PLUGIN_META_KEY |->
                 getOnCallMetadata(ArgOnCallIntegrations(a), r, HasConfiguration(a))]
         ELSE NoFields)
     @@ r

EnhanceContactPoint(a, groups, contactPoint) ==
  LET receivers == extractReceivers(contactPoint)
  IN [id |-> IF HasField(contactPoint, "id") /\ contactPoint.id # <<>>
             THEN contactPoint.id ELSE contactPoint.name,
      grafana_managed_receiver_configs |->
        [index \in DOMAIN receivers |->
           EnhanceReceiver(a, contactPoint, receivers[index], index)]]
     @@ OptionalValue("policies", Policies(a, groups, contactPoint.name))
     @@ contactPoint

\* a variant that keeps one contact point per name
MapContactPoints_OnePerName(a, groups) ==
  LET FirstOfName(i) == \A j \in 1..(i - 1) : a.contactPoints[j].name # a.contactPoints[i].name
      RECURSIVE From(_)
      From(i) == IF i > Len(a.contactPoints) THEN <<>>
                 ELSE (IF FirstOfName(i)
                       THEN <<EnhanceContactPoint(a, groups, a.contactPoints[i])>>
                       ELSE <<>>) \o From(i + 1)
  IN From(1)

\* contactPoints.map((contactPoint) => ...)
MapContactPoints(a, groups) ==
  [i \in DOMAIN a.contactPoints |-> EnhanceContactPoint(a, groups, a.contactPoints[i])]

\* the locals of one call, and its result
enhanceContactPointsWithMetadata(toggles, a) ==
  LET tree == computeInheritedTree(ConfiguredRoute(a))
      used == getUsedContactPoints(toggles, tree)
      usedContactPointsByName == groupBy_receiver(used)
  IN [fullyInheritedTree |-> tree,
      result |-> SortByName(MapContactPoints(a, usedContactPointsByName))]

\* no call of enhanceContactPointsWithMetadata has been made
EnhanceIdle ==
  /\ args = NoFields
  /\ fullyInheritedTree = NoFields
  /\ enhanced = <<>>

EnhanceContactPointsWithMetadata ==
  /\ pc = "idle"
  /\ LET r == enhanceContactPointsWithMetadata(featureToggles, args)
     IN /\ fullyInheritedTree' = r.fullyInheritedTree
        /\ enhanced' = r.result
  /\ pc' = "enhanceContactPointsWithMetadata"
  /\ UNCHANGED <<args, emailVars, routeVars, descriptionVars>>

(***************************************************************************)
(* Inputs: route trees of a bounded number of nodes                        *)
(***************************************************************************)
RECURSIVE TreesOfSize(_, _)
RECURSIVE ForestsOfSize(_, _)
\* the trees of exactly n nodes, each node one of kinds
TreesOfSize(kinds, n) ==
  IF n = 1 THEN kinds
  ELSE {k @@ ("routes" :> f) : k \in kinds, f \in ForestsOfSize(kinds, n - 1)}

\* the lists of trees of m nodes in all
ForestsOfSize(kinds, m) ==
  IF m = 0 THEN {<<>>}
  ELSE UNION {{<<t>> \o f : t \in TreesOfSize(kinds, j),
                            f \in ForestsOfSize(kinds, m - j)} : j \in 1..m}

TreesUpTo(kinds, n) == UNION {TreesOfSize(kinds, i) : i \in 1..n}

\* a childless route written with "routes: []"
WithEmptyRoutes(kinds) == {k @@ ("routes" :> <<>>) : k \in kinds}

ReceiverNames == {<<"a">>, <<"B">>}

\* receiver: missing, empty, or a name
ReceiverFields ==
  {NoFields, [receiver |-> <<>>]} \cup {[receiver |-> n] : n \in ReceiverNames}

KeyEquals == <<AUTOGENERATED_RECEIVER_POLICY_MATCHER_KEY, "=", <<"a">>>>

KeyNotEquals == <<AUTOGENERATED_RECEIVER_POLICY_MATCHER_KEY, "!=", <<"a">>>>

OtherEquals == <<"team", "=", <<"a">>>>

Matchers == {KeyEquals, KeyNotEquals, OtherEquals}

MaxMatchers == 2

MatcherLists ==
  UNION {[1..n -> Matchers] : n \in 0..MaxMatchers}

\* object_matchers: missing, or a list
MatcherFields ==
  {NoFields} \cup {[object_matchers |-> ms] : ms \in MatcherLists}

FeatureToggles ==
  {NoFields} \cup {[alertingSimplifiedRouting |-> b] : b \in BOOLEAN}

MaxNodes == 4

\* the nodes of the trees that exercise the walk: a grouping node, an empty
\* receiver, an auto-generated policy and a plain policy
WalkNodes ==
  {NoFields, [receiver |-> <<>>], [receiver |-> <<"B">>],
   [receiver |-> <<"a">>, object_matchers |-> <<KeyEquals>>]}

WalkRoutes == TreesUpTo(WalkNodes, MaxNodes) \cup WithEmptyRoutes(WalkNodes)

MaxPolicyChildren == 1

\* the nodes that exercise the classification
PolicyNodes == {r @@ m : r \in ReceiverFields, m \in MatcherFields}

\* a classified root, alone or over a few descendants
PolicyRoutes ==
  PolicyNodes \cup
  {k @@ ("routes" :> f) :
     k \in PolicyNodes,
     f \in UNION {ForestsOfSize(WalkNodes, m) : m \in 0..MaxPolicyChildren}}

WalkInit ==
  /\ pc = "idle"
  /\ featureToggles \in FeatureToggles
  /\ route \in WalkRoutes
  /\ autoGenerated = FALSE
  /\ usedContactPoints = <<>>
  /\ addresses = <<>>
  /\ EmailIdle
  /\ DescriptionIdle
  /\ EnhanceIdle

PolicyInit ==
  /\ pc = "idle"
  /\ featureToggles \in FeatureToggles
  /\ route \in PolicyRoutes
  /\ autoGenerated = FALSE
  /\ usedContactPoints = <<>>
  /\ addresses = <<>>
  /\ EmailIdle
  /\ DescriptionIdle
  /\ EnhanceIdle

IsAutoGeneratedPolicy ==
  /\ pc = "idle"
  /\ autoGenerated' = isAutoGeneratedPolicy(featureToggles, route)
  /\ pc' = "isAutoGeneratedPolicy"
  /\ UNCHANGED <<featureToggles, route, usedContactPoints, emailVars, descriptionVars, enhanceVars>>

GetUsedContactPoints ==
  /\ pc = "idle"
  /\ usedContactPoints' = getUsedContactPoints(featureToggles, route)
  /\ pc' = "getUsedContactPoints"
  /\ UNCHANGED <<featureToggles, route, autoGenerated, emailVars, descriptionVars, enhanceVars>>

WalkNext == GetUsedContactPoints

SpecWalk == WalkInit /\ [][WalkNext]_vars

PolicyNext == IsAutoGeneratedPolicy \/ GetUsedContactPoints

SpecPolicy == PolicyInit /\ [][PolicyNext]_vars

(***************************************************************************)
(* Inputs of summarizeEmailAddresses: up to MaxAddresses written addresses *)
(* with a separator before each but the first.                             *)
(***************************************************************************)
MaxAddresses == 5

WrittenAddresses == {<<"a">>, <<" ", "b", " ">>, <<>>}

WrittenSeparators == {<<",">>, <<";">>, <<"\n">>}

\* the strings of exactly n written addresses
RECURSIVE AddressStrings(_)
AddressStrings(n) ==
  IF n = 1 THEN WrittenAddresses
  ELSE {s \o sep \o a : s \in AddressStrings(n - 1),
                        sep \in WrittenSeparators, a \in WrittenAddresses}

\* the number of separator characters of a string
NumSeparators(s) == Cardinality({i \in DOMAIN s : s[i] \in {",", ";", "\n"}})

EmailInit ==
  /\ pc = "idle"
  /\ addresses \in WrittenAddresses
  /\ EmailIdle
  /\ RouteIdle
  /\ DescriptionIdle
  /\ EnhanceIdle

\* the setting gets one more address
WriteAddress ==
  /\ pc = "idle"
  /\ NumSeparators(addresses) + 1 < MaxAddresses
  /\ \E sep \in WrittenSeparators, a \in WrittenAddresses :
       addresses' = addresses \o sep \o a
  /\ UNCHANGED <<pc, emails, summary, rest, summarized, routeVars, descriptionVars,
                 enhanceVars>>

SummarizeEmailAddresses ==
  /\ pc = "idle"
  /\ LET r == summarizeEmailAddresses(addresses)
     IN /\ emails' = r.emails
        /\ summary' = r.summary
        /\ rest' = r.rest
        /\ summarized' = Str(r.result)
  /\ pc' = "summarizeEmailAddresses"
  /\ UNCHANGED <<addresses, routeVars, descriptionVars, enhanceVars>>

EmailNext == WriteAddress \/ SummarizeEmailAddresses

SpecEmail == EmailInit /\ [][EmailNext]_vars

(***************************************************************************)
(* Inputs of getReceiverDescription                                        *)
(***************************************************************************)
\* the strings of at most n characters
StringsUpTo(chars, n) == UNION {[1..i -> chars] : i \in 0..n}

\* the objects that have the field k or not
OptionalField(k, values) == {NoFields} \cup {k :> v : v \in values}

MaxChannelLen == 2

ChannelNames == StringsUpTo({"#", "g"}, MaxChannelLen)

MaxEmailFieldAddresses == 2

EmailFields ==
  {<<" ">>} \cup UNION {AddressStrings(n) : n \in 1..MaxEmailFieldAddresses}

Descriptions == {<<>>, <<"d">>}

ReceiverSettings ==
  [email |-> {a @@ b : a \in OptionalField("addresses", EmailFields),
                       b \in OptionalField("to", {<<>>, <<"t">>})},
   slack |-> {a @@ b : a \in OptionalField("recipient", ChannelNames),
                       b \in OptionalField("channel", ChannelNames)},
   kafka |-> OptionalField("kafkaTopic", Descriptions),
   webhook |-> OptionalField("url", Descriptions),
   oncall |-> OptionalField("url", Descriptions),
   teams |-> OptionalField("url", Descriptions)]

ReceiverMetadata ==
  {a @@ b :
     a \in OptionalField("RECEIVER_META_KEY",
             {[name |-> <<"n">>] @@ d : d \in OptionalField("description", Descriptions)}),
     b \in OptionalField("RECEIVER_PLUGIN_META_KEY",
             OptionalField("description", Descriptions))}

ReceiversOfType(t) ==
  {[type |-> t] @@ s @@ m :
     s \in OptionalField("settings", ReceiverSettings[t]),
     m \in IF t \in {"email", "slack"} THEN {[RECEIVER_META_KEY |-> [name |-> <<"n">>]]}
           ELSE ReceiverMetadata}

ReceiverInputs == UNION {ReceiversOfType(t) : t \in DOMAIN ReceiverSettings}

DescriptionInit ==
  /\ pc = "idle"
  /\ receiver \in ReceiverInputs
  /\ description = Undefined
  /\ addresses = <<>>
  /\ EmailIdle
  /\ RouteIdle
  /\ EnhanceIdle

GetReceiverDescription ==
  /\ pc = "idle"
  /\ description' = getReceiverDescription(receiver)
  /\ pc' = "getReceiverDescription"
  /\ UNCHANGED <<receiver, emailVars, routeVars, enhanceVars>>

DescriptionNext == GetReceiverDescription

SpecDescription == DescriptionInit /\ [][DescriptionNext]_vars

(***************************************************************************)
(* Inputs of enhanceContactPointsWithMetadata                              *)
(***************************************************************************)
\* the lists of at most n elements of a set
ListsUpTo(elements, n) == UNION {[1..i -> elements] : i \in 0..n}

EmailReceiver == [type |-> "email", settings |-> [addresses |-> <<"a">>]]

SlackReceiver == [type |-> "slack", settings |-> [recipient |-> <<"g">>]]

OnCallReceiver == [type |-> "oncall", settings |-> [url |-> <<"u">>]]

EmailStatus == [name |-> "email", lastNotifyAttempt |-> "12:00"]

SlackStatus == [name |-> "slack", lastNotifyAttempt |-> "12:01",
                lastNotifyAttemptError |-> "channel_not_found"]

EmailNotifier == [type |-> "email", name |-> "E-mail", description |-> <<"d">>]

OnCallIntegration == [integration_url |-> <<"u">>, display_name |-> <<"d">>]

NameToString == <<"t", "o", "S", "t", "r", "i", "n", "g">>

\* every way of giving or omitting the optional arguments
OptionalArguments ==
  {st @@ n @@ o @@ c :
     st \in OptionalField("status",
              {<<[name |-> <<"a">>, integrations |-> <<EmailStatus>>]>>}),
     n \in OptionalField("notifiers", {<<EmailNotifier>>}),
     o \in OptionalField("onCallIntegrations", {Null, Arr(<<OnCallIntegration>>)}),
     c \in OptionalField("alertmanagerConfiguration",
             {[alertmanager_config |-> [route |-> [receiver |-> <<"a">>]]]})}

MaxContactPoints == 3

\* contact points told apart by their name and id
SortContactPoints ==
  {[name |-> n, grafana_managed_receiver_configs |-> <<EmailReceiver, OnCallReceiver>>]
     @@ i : n \in {<<"a">>, <<"B">>, <<"A">>}, i \in OptionalField("id", {<<"x">>})}

SortInit ==
  /\ pc = "idle"
  /\ args \in {[contactPoints |-> cps] @@ o :
                 cps \in ListsUpTo(SortContactPoints, MaxContactPoints),
                 o \in OptionalArguments}
  /\ fullyInheritedTree = NoFields
  /\ enhanced = <<>>
  /\ addresses = <<>>
  /\ EmailIdle
  /\ RouteIdle
  /\ DescriptionIdle

EnhanceNext == EnhanceContactPointsWithMetadata

SpecSort == SortInit /\ [][EnhanceNext]_vars

MaxPolicyContactPoints == 2

MaxConfigNodes == 3

\* contact points named by routes, by none, and by a name that plain objects
\* inherit
PolicyContactPoints == {[name |-> n] : n \in {<<"a">>, <<"B">>, NameToString}}

Configurations ==
  {[alertmanager_config |-> NoFields]} \cup
  {[alertmanager_config |-> [route |-> r]] : r \in TreesUpTo(WalkNodes, MaxConfigNodes)}

PoliciesInit ==
  /\ pc = "idle"
  /\ args \in {[contactPoints |-> cps] @@ c :
                 cps \in ListsUpTo(PolicyContactPoints, MaxPolicyContactPoints),
                 c \in OptionalField("alertmanagerConfiguration", Configurations)}
  /\ fullyInheritedTree = NoFields
  /\ enhanced = <<>>
  /\ addresses = <<>>
  /\ EmailIdle
  /\ featureToggles \in FeatureToggles
  /\ route = NoFields
  /\ autoGenerated = FALSE
  /\ usedContactPoints = <<>>
  /\ DescriptionIdle

SpecPolicies == PoliciesInit /\ [][EnhanceNext]_vars

MaxStatusContactPoints == 1

MaxStatusEntries == 2

StatusContactPoints ==
  {[name |-> n] @@ r :
     n \in {<<"a">>, <<"B">>},
     r \in OptionalField("grafana_managed_receiver_configs",
             {<<EmailReceiver>>, <<SlackReceiver, EmailReceiver>>})}

StatusEntries ==
  {[name |-> n, integrations |-> i] :
     n \in {<<"a">>, <<"B">>},
     i \in {<<>>, <<EmailStatus>>, <<EmailStatus, SlackStatus>>}}

StatusInit ==
  /\ pc = "idle"
  /\ args \in {[contactPoints |-> cps] @@ st :
                 cps \in ListsUpTo(StatusContactPoints, MaxStatusContactPoints),
                 st \in OptionalField("status", ListsUpTo(StatusEntries, MaxStatusEntries))}
  /\ fullyInheritedTree = NoFields
  /\ enhanced = <<>>
  /\ addresses = <<>>
  /\ EmailIdle
  /\ RouteIdle
  /\ DescriptionIdle

SpecStatus == StatusInit /\ [][EnhanceNext]_vars

(***************************************************************************)
(* Positions in a route tree.  A position is the list of child indices     *)
(* leading to a node; pre-order is: a prefix first, then left to right.    *)
(***************************************************************************)
RECURSIVE Paths(_)
Paths(r) ==
  {<<>>} \cup
  (IF HasField(r, "routes")
   THEN UNION {{<<i>> \o p : p \in Paths(r.routes[i])} : i \in 1..Len(r.routes)}
   ELSE {})

RECURSIVE NodeAt(_, _)
NodeAt(r, p) == IF p = <<>> THEN r ELSE NodeAt(r.routes[Head(p)], Tail(p))

IsPrefix(p, q) == Len(p) <= Len(q) /\ SubSeq(q, 1, Len(p)) = p

PreOrderBefore(p, q) ==
  /\ p # q
  /\ \/ IsPrefix(p, q)
     \/ \E i \in 1..Min(Len(p), Len(q)) :
          /\ SubSeq(p, 1, i - 1) = SubSeq(q, 1, i - 1)
          /\ p[i] < q[i]

\* the positions of the nodes that have a non-empty receiver
ReceiverPaths(r) ==
  {p \in Paths(r) : /\ "receiver" \in DOMAIN NodeAt(r, p)
                    /\ Len(NodeAt(r, p).receiver) > 0}

\* the place, counted from 1, of position p among the receiver-bearing positions
PreOrderRank(r, p) == 1 + Cardinality({q \in ReceiverPaths(r) : PreOrderBefore(q, p)})

\* C1: getUsedContactPoints(T) is the pre-order listing of the receivers of the
\* nodes of T that have a non-empty receiver: one entry per such node, children of
\* receiver-less nodes included, nothing deduplicated, so its length is the number
\* of receiver-bearing nodes
C1_PreOrderListing ==
  pc = "getUsedContactPoints" =>
    /\ Len(usedContactPoints) = Cardinality(ReceiverPaths(route))
    /\ \A p \in ReceiverPaths(route) :
         usedContactPoints[PreOrderRank(route, p)].receiver = NodeAt(route, p).receiver

\* a grouping child without receiver whose own child is listed before the next
\* sibling, both naming the same contact point
C1_Witness ==
  /\ pc = "getUsedContactPoints"
  /\ {<<1>>, <<1, 1>>, <<2>>} \subseteq Paths(route)
  /\ <<1>> \notin ReceiverPaths(route)
  /\ {<<1, 1>>, <<2>>} \subseteq ReceiverPaths(route)
  /\ NodeAt(route, <<1, 1>>).receiver = NodeAt(route, <<2>>).receiver
  /\ Len(usedContactPoints) >= 2

\* the classification the claim describes for one route node
HasAutoGeneratedMatcher(r) ==
  /\ "object_matchers" \in DOMAIN r
  /\ \E i \in DOMAIN r.object_matchers :
       /\ r.object_matchers[i][1] = "__grafana_receiver__"
       /\ r.object_matchers[i][2] = "="

FlagEnabled ==
  /\ "alertingSimplifiedRouting" \in DOMAIN featureToggles
  /\ featureToggles.alertingSimplifiedRouting

\* C6: isAutoGeneratedPolicy(route) is true iff the alertingSimplifiedRouting flag
\* is enabled and object_matchers holds a matcher with label __grafana_receiver__
\* and operator "=", and getUsedContactPoints gives a receiver-bearing node the type
\* auto-generated exactly then, and normal otherwise
C6_AutoGenerated ==
  /\ pc = "isAutoGeneratedPolicy" =>
       (autoGenerated <=> (FlagEnabled /\ HasAutoGeneratedMatcher(route)))
  /\ pc = "getUsedContactPoints" =>
       \A p \in ReceiverPaths(route) :
         usedContactPoints[PreOrderRank(route, p)].route.type =
           IF FlagEnabled /\ HasAutoGeneratedMatcher(NodeAt(route, p))
           THEN "auto-generated" ELSE "normal"

\* with the flag enabled, one listing holds an auto-generated and a normal policy,
\* the normal one having the reserved label under another operator
C6_Witness ==
  /\ pc = "getUsedContactPoints"
  /\ FlagEnabled
  /\ HasReceiver(route)
  /\ "object_matchers" \in DOMAIN route
  /\ ~HasAutoGeneratedMatcher(route)
  /\ \E i \in DOMAIN route.object_matchers :
       route.object_matchers[i][1] = "__grafana_receiver__"
  /\ \E i \in DOMAIN usedContactPoints : usedContactPoints[i].route.type = "auto-generated"
  /\ usedContactPoints[1].route.type = "normal"

(***************************************************************************)
(* summarizeEmailAddresses                                                 *)
(***************************************************************************)
\* the parsed addresses that are shown
ShownEmails == SubSeq(emails, 1, Min(3, Len(emails)))

\* the parsed addresses whose value is none of the shown ones
NotAmongShown ==
  {i \in DOMAIN emails : \A j \in DOMAIN ShownEmails : emails[i] # ShownEmails[j]}

\* C5: the result shows the first 3 parsed addresses at most, has no "+N more"
\* segment when 3 or fewer were parsed, and otherwise ends with a 4th segment
\* "+N more" where N is the number parsed minus 3
C5_MoreCountsAllNotShown ==
  pc = "summarizeEmailAddresses" =>
    /\ SubSeq(summary, 1, Len(ShownEmails)) = ShownEmails
    /\ Len(emails) <= 3 => summary = emails
    /\ Len(emails) > 3 =>
         /\ Len(summary) = 4
         /\ summary[4] = MoreSegment(Len(emails) - 3)

IsSlackCall ==
  /\ pc = "getReceiverDescription"
  /\ receiver.type = "slack"
  /\ "settings" \in DOMAIN receiver

NonEmptyField(obj, k) == k \in DOMAIN obj /\ Len(obj[k]) > 0

\* the field a slack description is taken from: recipient, or channel when
\* recipient is absent or empty
SlackSource ==
  IF NonEmptyField(receiver.settings, "recipient") THEN "recipient" ELSE "channel"

WithOneHash(s) == IF Len(s) > 0 /\ s[1] = "#" THEN s ELSE <<"#">> \o s

\* C7 as stated: no description when recipient and channel are both absent, and
\* otherwise the taken value with one leading "#" removed and one "#" prefixed
C7_NoneOnlyWhenBothAbsent ==
  IsSlackCall =>
    IF DOMAIN receiver.settings \cap {"recipient", "channel"} = {}
    THEN description = Undefined
    ELSE /\ description.t = "string"
         /\ SlackSource \in DOMAIN receiver.settings =>
              description.v = WithOneHash(receiver.settings[SlackSource])

\* C7: for a slack receiver with settings the value is recipient, or channel when
\* recipient is absent or empty; there is no description when that value is absent
\* or empty, and otherwise the description is the value with exactly one leading
\* "#" removed, if it has one, and a single "#" prefixed
C7_SlackChannel ==
  IsSlackCall =>
    IF NonEmptyField(receiver.settings, SlackSource)
    THEN description = [t |-> "string", v |-> WithOneHash(receiver.settings[SlackSource])]
    ELSE description = Undefined

\* the channel is used because the recipient is empty, and it already starts with
\* two "#": the description is the channel itself
C7_Witness ==
  /\ IsSlackCall
  /\ "recipient" \in DOMAIN receiver.settings
  /\ receiver.settings.recipient = <<>>
  /\ SlackSource \in DOMAIN receiver.settings
  /\ Len(receiver.settings.channel) >= 2
  /\ receiver.settings.channel[1] = "#"
  /\ receiver.settings.channel[2] = "#"
  /\ description = [t |-> "string", v |-> receiver.settings.channel]

\* C9 as stated: the description is undefined or a non-empty string
C9_NeverEmptyString ==
  pc = "getReceiverDescription" =>
    (description.t = "string" => description.v # <<>>)

\* the field an email description is taken from
EmailSource ==
  IF NonEmptyField(receiver.settings, "addresses") THEN "addresses" ELSE "to"

OnlyWhiteSpace(s) == \A i \in DOMAIN s : s[i] \in {" ", "\n"}

EmptyDescriptionIn(obj, k) ==
  /\ k \in DOMAIN obj
  /\ "description" \in DOMAIN obj[k]
  /\ obj[k].description = <<>>

\* C9: without settings the description is undefined, and a description that is
\* the empty string is either a kafka topic, a webhook url or a metadata
\* description that is itself the empty string, or the summary of an email field
\* made of white space only; for slack, and for email with an absent or empty
\* field, it is undefined, never the empty string
C9_EmptyOnlyVerbatim ==
  pc = "getReceiverDescription" =>
    /\ "settings" \notin DOMAIN receiver => description = Undefined
    /\ description = [t |-> "string", v |-> <<>>] =>
         /\ "settings" \in DOMAIN receiver
         /\ CASE receiver.type = "email" ->
                   /\ NonEmptyField(receiver.settings, EmailSource)
                   /\ OnlyWhiteSpace(receiver.settings[EmailSource])
              [] receiver.type = "slack" -> FALSE
              [] receiver.type = "kafka" ->
                   /\ "kafkaTopic" \in DOMAIN receiver.settings
                   /\ receiver.settings.kafkaTopic = <<>>
              [] receiver.type = "webhook" ->
                   /\ "url" \in DOMAIN receiver.settings
                   /\ receiver.settings.url = <<>>
              [] receiver.type = "oncall" ->
                   EmptyDescriptionIn(receiver, "RECEIVER_PLUGIN_META_KEY")
              [] OTHER -> EmptyDescriptionIn(receiver, "RECEIVER_META_KEY")

\* an email receiver whose addresses field is a single space, to being absent:
\* the field is used, and its summary is the empty string
C9_Witness ==
  /\ pc = "getReceiverDescription"
  /\ receiver.type = "email"
  /\ "settings" \in DOMAIN receiver
  /\ DOMAIN receiver.settings = {"addresses"}
  /\ receiver.settings.addresses = <<" ">>
  /\ description = [t |-> "string", v |-> <<>>]

(***************************************************************************)
(* enhanceContactPointsWithMetadata                                        *)
(***************************************************************************)
Enhanced == pc = "enhanceContactPointsWithMetadata"

\* what tells one input contact point from another: its name and its id, the
\* name standing for a missing id
InputKey(cp) == <<cp.name, IF "id" \in DOMAIN cp /\ cp.id # <<>> THEN cp.id ELSE cp.name>>

\* the same of an enriched contact point
OutputKey(e) == <<e.name, e.id>>

InputsWithKey(k) == {i \in DOMAIN args.contactPoints : InputKey(args.contactPoints[i]) = k}

OutputsWithKey(k) == {i \in DOMAIN enhanced : OutputKey(enhanced[i]) = k}

\* C2: whatever optional arguments are given, the result has the length of the
\* input list and holds exactly one enriched entry per input contact point, also
\* for contact points that share a name
C2_OnePerContactPoint ==
  Enhanced =>
    /\ Len(enhanced) = Len(args.contactPoints)
    /\ \A i \in DOMAIN args.contactPoints :
         Cardinality(OutputsWithKey(InputKey(args.contactPoints[i])))
           = Cardinality(InputsWithKey(InputKey(args.contactPoints[i])))
    /\ \A i \in DOMAIN enhanced :
         Cardinality(InputsWithKey(OutputKey(enhanced[i])))
           = Cardinality(OutputsWithKey(OutputKey(enhanced[i])))

\* three contact points, two of them sharing a name, enriched with no optional
\* argument given
C2_Witness ==
  /\ Enhanced
  /\ DOMAIN args = {"contactPoints"}
  /\ Len(args.contactPoints) = 3
  /\ args.contactPoints[1].name = args.contactPoints[3].name
  /\ InputKey(args.contactPoints[1]) # InputKey(args.contactPoints[3])
  /\ Len(enhanced) = 3

UpperLetters == {"A", "B", "C", "D", "E", "F", "G", "H", "I", "J", "K", "L", "M",
                 "N", "O", "P", "Q", "R", "S", "T", "U", "V", "W", "X", "Y", "Z"}

\* the collation key of a name: its letters without their case, then the case of
\* each letter, lower case first
CollationKey(name) ==
  [i \in 1..(2 * Len(name)) |->
     IF i <= Len(name)
     THEN CHOOSE k \in DOMAIN LowerCase : name[i] \in {LowerCase[k], UpperCase[k]}
     ELSE IF name[i - Len(name)] \in UpperLetters THEN 1 ELSE 0]

\* key a is before key b: a first difference where a is smaller, names of one
\* length having keys of one length
KeyBefore(a, b) ==
  \E i \in 1..Min(Len(a), Len(b)) :
    /\ \A j \in 1..(i - 1) : a[j] = b[j]
    /\ a[i] < b[i]

\* name a is less than name b: by the letters, a proper prefix first, then by case
NameLess(a, b) ==
  LET la == SubSeq(CollationKey(a), 1, Len(a))
      lb == SubSeq(CollationKey(b), 1, Len(b))
  IN \/ KeyBefore(la, lb)
     \/ Len(a) < Len(b) /\ la = SubSeq(lb, 1, Len(a))
     \/ la = lb /\ KeyBefore(CollationKey(a), CollationKey(b))

\* the ids of the entries of a list that have the name, in order
IdsOfName(list, name) ==
  LET Named(e) == e.name = name
      same == SelectSeq(list, Named)
  IN [i \in DOMAIN same |-> IF "id" \in DOMAIN same[i] /\ same[i].id # <<>>
                            THEN same[i].id ELSE same[i].name]

\* C3: the result is in ascending order of name under the locale comparison, and
\* entries of one name keep the order they had in the input
C3_SortedByNameStable ==
  Enhanced =>
    /\ \A i \in 1..(Len(enhanced) - 1) : ~NameLess(enhanced[i + 1].name, enhanced[i].name)
    /\ \A i \in DOMAIN enhanced :
         IdsOfName(enhanced, enhanced[i].name) = IdsOfName(args.contactPoints, enhanced[i].name)

\* "B" given before two contact points named "a", which come out first and in
\* their input order
C3_Witness ==
  /\ Enhanced
  /\ Len(args.contactPoints) = 3
  /\ args.contactPoints[1].name = <<"B">>
  /\ args.contactPoints[2].name = <<"a">>
  /\ args.contactPoints[3].name = <<"a">>
  /\ "id" \in DOMAIN args.contactPoints[2]
  /\ "id" \notin DOMAIN args.contactPoints[3]
  /\ enhanced[1].id = args.contactPoints[2].id
  /\ enhanced[2].id = <<"a">>
  /\ enhanced[3].name = <<"B">>

ConfigurationGiven == "alertmanagerConfiguration" \in DOMAIN args

\* the references of the inherited tree to a contact point, in collector order
ReferencesTo(name) ==
  LET Named(ref) == ref.receiver = name
  IN SelectSeq(getUsedContactPoints(featureToggles, fullyInheritedTree), Named)

\* C4: without alertmanagerConfiguration no enriched contact point has policies;
\* with it, the policies of every enriched contact point are the list of the
\* references of getUsedContactPoints(inherited tree) to its name, in collector
\* order, the empty list when there is none
C4_PoliciesAreReferences ==
  Enhanced =>
    \A i \in DOMAIN enhanced :
      IF ConfigurationGiven
      THEN /\ "policies" \in DOMAIN enhanced[i]
           /\ enhanced[i].policies = [t |-> "array", v |-> ReferencesTo(enhanced[i].name)]
      ELSE "policies" \notin DOMAIN enhanced[i]

\* the status entry the claim names: the first one with the contact point's name
StatusEntryOf(name) ==
  LET entries == IF "status" \in DOMAIN args THEN args.status ELSE <<>>
      named == {k \in DOMAIN entries : entries[k].name = name}
  IN IF named = {} THEN <<>>
     ELSE entries[CHOOSE k \in named : \A j \in named : k <= j].integrations

InputsNamed(name) ==
  LET Named(cp) == cp.name = name IN SelectSeq(args.contactPoints, Named)

OutputsNamed(name) ==
  LET Named(e) == e.name = name IN SelectSeq(enhanced, Named)

InputReceivers(cp) ==
  IF "grafana_managed_receiver_configs" \in DOMAIN cp
  THEN cp.grafana_managed_receiver_configs ELSE <<>>

\* C8: the status of the receiver config at position i of a contact point is the
\* element at position i of the integrations of the first status entry with the
\* contact point's name, and there is none when no entry has the name or the entry
\* has no element i, whatever the receiver's type and settings
C8_StatusByPosition ==
  Enhanced =>
    \A n \in {args.contactPoints[k].name : k \in DOMAIN args.contactPoints} :
      /\ Len(OutputsNamed(n)) = Len(InputsNamed(n))
      /\ \A j \in DOMAIN InputsNamed(n) :
           LET receivers == InputReceivers(InputsNamed(n)[j])
               configs == OutputsNamed(n)[j].grafana_managed_receiver_configs
           IN /\ Len(configs) = Len(receivers)
              /\ \A i \in DOMAIN receivers :
                   /\ configs[i].type = receivers[i].type
                   /\ configs[i].settings = receivers[i].settings
                   /\ IF i \in DOMAIN StatusEntryOf(n)
                      THEN /\ "RECEIVER_STATUS_KEY" \in DOMAIN configs[i]
                           /\ configs[i].RECEIVER_STATUS_KEY = StatusEntryOf(n)[i]
                      ELSE "RECEIVER_STATUS_KEY" \notin DOMAIN configs[i]

\* two status entries of one name, the first with the status of an email
\* integration only: the slack receiver at position 1 gets it, and the email
\* receiver at position 2 gets none
C8_Witness ==
  /\ Enhanced
  /\ "status" \in DOMAIN args
  /\ Len(args.status) = 2
  /\ args.status[1].name = args.status[2].name
  /\ Len(args.status[1].integrations) = 1
  /\ Len(args.status[2].integrations) = 2
  /\ Len(enhanced) = 1
  /\ enhanced[1].name = args.status[1].name
  /\ Len(enhanced[1].grafana_managed_receiver_configs) = 2
  /\ enhanced[1].grafana_managed_receiver_configs[1].type = "slack"
  /\ "RECEIVER_STATUS_KEY" \in DOMAIN enhanced[1].grafana_managed_receiver_configs[1]
  /\ enhanced[1].grafana_managed_receiver_configs[1].RECEIVER_STATUS_KEY.name = "email"
  /\ "RECEIVER_STATUS_KEY" \notin DOMAIN enhanced[1].grafana_managed_receiver_configs[2]

====
